---------------------------- MODULE Spec2Model ----------------------------
(***************************************************************************)
(* Anchor resolution and fill heuristics of fill_any_docx.py.              *)
(*                                                                         *)
(* A text is a sequence of characters; a character is a one-token string.  *)
(* The document is the list of paragraph texts and the list of tables      *)
(* (table = list of rows, row = list of cell texts).  Reading and writing  *)
(* a paragraph's or a cell's text (python-docx, not part of src/) is a     *)
(* read or write of the stored text.                                       *)
(***************************************************************************)
EXTENDS Integers, Sequences, FiniteSets, TLC

(***************************************************************************)
(* Characters                                                              *)
(***************************************************************************)
US     == "_"
COLON  == ":"
SP     == " "
BSL    == "\\"
HYPHEN == "-"
EMDASH == "<em-dash>"          \* U+2014, written for an empty value
ENDASH == "<en-dash>"          \* U+2013

\* Characters str.strip() removes and \s matches (WS_RE).
Whitespace == {" ", "\t", "\n", "\r", "\f", "<VT>"}

\* Letters the texts of the model are written with.
Letters == {"a", "b", "c", "d", "v", "x", "A"}

Alphabet == Letters \cup Whitespace \cup {US, COLON, BSL, HYPHEN, EMDASH, ENDASH, "<BEL>", "<BS>"}

\* str.lower() on one character.
Lower(c) == IF c = "A" THEN "a" ELSE c

IsSpace(c) == c \in Whitespace

\* "not text.strip()": the text is blank.
IsBlank(s) == \A i \in 1..Len(s) : IsSpace(s[i])

LStrip(s) ==
    IF IsBlank(s) THEN <<>>
    ELSE LET first == CHOOSE i \in 1..Len(s) :
                         /\ ~IsSpace(s[i])
                         /\ \A j \in 1..(i-1) : IsSpace(s[j])
         IN SubSeq(s, first, Len(s))

RStrip(s) ==
    IF IsBlank(s) THEN <<>>
    ELSE LET last_ == CHOOSE i \in 1..Len(s) :
                         /\ ~IsSpace(s[i])
                         /\ \A j \in (i+1)..Len(s) : IsSpace(s[j])
         IN SubSeq(s, 1, last_)

Strip(s) == LStrip(RStrip(s))

\* WS_RE.sub(" ", s): every maximal run of whitespace becomes one space.
RECURSIVE CollapseWs(_)
CollapseWs(s) ==
    IF s = <<>> THEN <<>>
    ELSE IF IsSpace(s[1])
         THEN IF Len(s) > 1 /\ IsSpace(s[2])
              THEN CollapseWs(Tail(s))
              ELSE <<SP>> \o CollapseWs(Tail(s))
         ELSE <<s[1]>> \o CollapseWs(Tail(s))

LowerAll(s) == [i \in 1..Len(s) |-> Lower(s[i])]

\* norm(s)
Norm(s) == CollapseWs(LowerAll(Strip(s)))

\* "x in text": x occurs as a contiguous slice of text.
Contains(text, x) ==
    \E i \in 0..(Len(text) - Len(x)) : SubSeq(text, i + 1, i + Len(x)) = x

(***************************************************************************)
(* difflib.SequenceMatcher(None, a, b).ratio(), as sim() calls it.  The    *)
(* texts are far shorter than the 200 elements at which difflib starts to  *)
(* treat popular elements as junk.  Indices are difflib's: 0-based,        *)
(* half-open.                                                              *)
(***************************************************************************)
RECURSIVE CommonLen(_, _, _, _, _, _)
\* Length of the longest common run starting at a[i], b[j] inside the windows.
CommonLen(a, i, ahi, b, j, bhi) ==
    IF i < ahi /\ j < bhi /\ a[i + 1] = b[j + 1]
    THEN 1 + CommonLen(a, i + 1, ahi, b, j + 1, bhi)
    ELSE 0

\* find_longest_match: the longest block; of those the one starting earliest
\* in a; of those the one starting earliest in b.  <<alo, blo, 0>> if none.
FindLongestMatch(a, alo, ahi, b, blo, bhi) ==
    LET Pairs == (alo..(ahi - 1)) \X (blo..(bhi - 1))
        K(p)  == CommonLen(a, p[1], ahi, b, p[2], bhi)
        Sized == {<<p[1], p[2], K(p)>> : p \in Pairs}
        Hits  == {m \in Sized : m[3] > 0}
    IN IF Hits = {} THEN <<alo, blo, 0>>
       ELSE CHOOSE m \in Hits :
              \A o \in Hits :
                 \/ m[3] > o[3]
                 \/ m[3] = o[3] /\ m[1] < o[1]
                 \/ m[3] = o[3] /\ m[1] = o[1] /\ m[2] <= o[2]

RECURSIVE MatchCount(_, _, _, _, _, _)
\* Sum of the sizes of get_matching_blocks() inside the windows.
MatchCount(a, alo, ahi, b, blo, bhi) ==
    LET m == FindLongestMatch(a, alo, ahi, b, blo, bhi)
        i == m[1]
        j == m[2]
        k == m[3]
    IN IF k = 0 THEN 0
       ELSE k
            + (IF alo < i /\ blo < j THEN MatchCount(a, alo, i, b, blo, j) ELSE 0)
            + (IF i + k < ahi /\ j + k < bhi
               THEN MatchCount(a, i + k, ahi, b, j + k, bhi) ELSE 0)

(***************************************************************************)
(* A score is the exact fraction <<numerator, denominator>> of the float   *)
(* the code computes; the fractions met here are far enough apart for the  *)
(* float comparisons to agree with the exact ones.                         *)
(***************************************************************************)
ScoreLess(s, t) == s[1] * t[2] < t[1] * s[2]
ScoreMax(s, t)  == IF ScoreLess(s, t) THEN t ELSE s

\* SequenceMatcher.ratio(): 2.0 * matches / (len(a) + len(b)), 1.0 for two empty.
Ratio(a, b) ==
    IF Len(a) + Len(b) = 0 THEN <<1, 1>>
    ELSE <<2 * MatchCount(a, 0, Len(a), b, 0, Len(b)), Len(a) + Len(b)>>

\* sim(a, b)
Sim(a, b) ==
    IF a = <<>> \/ b = <<>> THEN <<0, 1>>
    ELSE Ratio(Norm(a), Norm(b))


(***************************************************************************)
(* Region scanning and anchor resolution                                   *)
(***************************************************************************)
MIN_SCORE == <<62, 100>>       \* min_score = 0.62
BOOST     == <<95, 100>>       \* max(score, 0.95)

\* Match; paragraph is the paragraph's position in doc.paragraphs, table the
\* table's position in doc.tables, cell_pos = <<row, column>>, all from 1.
Match(kind, score, paragraph, table, cell_pos) ==
    [kind |-> kind, score |-> score, paragraph |-> paragraph,
     table |-> table, cell_pos |-> cell_pos]

\* find_best_anchor's "None"
None == Match("none", <<0, 1>>, 0, 0, <<0, 0>>)

\* iter_paragraphs: positions of doc.paragraphs, in order.
IterParagraphs(d) == [i \in 1..Len(d.paragraphs) |-> i]

RECURSIVE RowCells(_, _, _, _)
RowCells(d, t, r, c) ==
    IF c > Len(d.tables[t][r]) THEN <<>>
    ELSE <<<<t, r, c>>>> \o RowCells(d, t, r, c + 1)

RECURSIVE TableCells(_, _, _)
TableCells(d, t, r) ==
    IF r > Len(d.tables[t]) THEN <<>>
    ELSE RowCells(d, t, r, 1) \o TableCells(d, t, r + 1)

RECURSIVE CellsFrom(_, _)
CellsFrom(d, t) ==
    IF t > Len(d.tables) THEN <<>>
    ELSE TableCells(d, t, 1) \o CellsFrom(d, t + 1)

\* iter_cells: <<table, row, column>> of every cell, tables, rows, columns in order.
IterCells(d) == CellsFrom(d, 1)

CellText(d, pos) == d.tables[pos[1]][pos[2]][pos[3]]

\* Variant of BoostedScore without the substring boost.
BoostedScore_NoBoost(anchor_n, text) == Sim(anchor_n, text)

\* score = sim(anchor_n, text), raised to 0.95 when anchor_n is in norm(text).
BoostedScore(anchor_n, text) ==
    LET score == Sim(anchor_n, text)
    IN IF anchor_n # <<>> /\ Contains(Norm(text), anchor_n)
       THEN ScoreMax(score, BOOST)
       ELSE score

\* Variant of CellImproves that lets a cell with an equal score replace the best.
CellImproves_OnTie(best, score) == best.kind = "none" \/ ~ScoreLess(score, best.score)

\* "best is None or score > best.score", paragraph loop and cell loop.
ParagraphImproves(best, score) == best.kind = "none" \/ ScoreLess(best.score, score)
CellImproves(best, score)      == best.kind = "none" \/ ScoreLess(best.score, score)

RECURSIVE ScanParagraphs(_, _, _, _, _)
ScanParagraphs(d, anchor_n, ps, k, best) ==
    IF k > Len(ps) THEN best
    ELSE LET text == d.paragraphs[ps[k]]
         IN IF IsBlank(text) THEN ScanParagraphs(d, anchor_n, ps, k + 1, best)
            ELSE LET score == BoostedScore(anchor_n, text)
                 IN ScanParagraphs(d, anchor_n, ps, k + 1,
                       IF ParagraphImproves(best, score)
                       THEN Match("paragraph", score, ps[k], 0, <<0, 0>>)
                       ELSE best)

RECURSIVE ScanCells(_, _, _, _, _)
ScanCells(d, anchor_n, cs, k, best) ==
    IF k > Len(cs) THEN best
    ELSE LET text == CellText(d, cs[k])
         IN IF IsBlank(text) THEN ScanCells(d, anchor_n, cs, k + 1, best)
            ELSE LET score == BoostedScore(anchor_n, text)
                 IN ScanCells(d, anchor_n, cs, k + 1,
                       IF CellImproves(best, score)
                       THEN Match("cell", score, 0, cs[k][1], <<cs[k][2], cs[k][3]>>)
                       ELSE best)

\* Variant of Rejected without the threshold.
Rejected_NoThreshold(best) == best.kind = "none"

\* "best is None or best.score < min_score"
Rejected(best) == best.kind = "none" \/ ScoreLess(best.score, MIN_SCORE)

\* find_best_anchor(doc, anchor)
FindBestAnchor(d, anchor) ==
    LET anchor_n == Norm(anchor)
        afterP   == ScanParagraphs(d, anchor_n, IterParagraphs(d), 1, None)
        best     == ScanCells(d, anchor_n, IterCells(d), 1, afterP)
    IN IF Rejected(best) THEN None ELSE best

(***************************************************************************)
(* Underscore runs and re.sub                                              *)
(***************************************************************************)
UnderscoreMin == 3             \* UNDERSCORE_RE = _{3,}

RunAt(text, i) ==
    /\ i + UnderscoreMin - 1 <= Len(text)
    /\ \A j \in i..(i + UnderscoreMin - 1) : text[j] = US

\* UNDERSCORE_RE.search(text)
HasRun(text) == \E i \in 1..Len(text) : RunAt(text, i)

\* Start and end of the leftmost, longest match of _{3,}.
RunStart(text) == CHOOSE i \in 1..Len(text) :
                     RunAt(text, i) /\ \A j \in 1..(i - 1) : ~RunAt(text, j)
RunEnd(text)   == CHOOSE e \in RunStart(text)..Len(text) :
                     /\ \A j \in RunStart(text)..e : text[j] = US
                     /\ (e = Len(text) \/ text[e + 1] # US)

\* re's replacement template: what a backslash and the character after it
\* stand for.  (No digit and no "g" is in the alphabet.)
TemplateEscapes == [a |-> "<BEL>", b |-> "<BS>", f |-> "\f", n |-> "\n",
                    r |-> "\r", t |-> "\t", v |-> "<VT>"]
AsciiLetters == Letters

RECURSIVE TemplateValid(_)
\* FALSE where re.sub raises re.error ("bad escape").
TemplateValid(v) ==
    IF v = <<>> THEN TRUE
    ELSE IF v[1] # BSL THEN TemplateValid(Tail(v))
    ELSE IF Len(v) = 1 THEN FALSE
    ELSE IF v[2] = BSL \/ v[2] \in DOMAIN TemplateEscapes THEN TemplateValid(Tail(Tail(v)))
    ELSE IF v[2] \in AsciiLetters THEN FALSE
    ELSE TemplateValid(Tail(Tail(v)))

RECURSIVE TemplateExpand(_)
TemplateExpand(v) ==
    IF v = <<>> THEN <<>>
    ELSE IF v[1] # BSL \/ Len(v) = 1 THEN <<v[1]>> \o TemplateExpand(Tail(v))
    ELSE IF v[2] = BSL THEN <<BSL>> \o TemplateExpand(Tail(Tail(v)))
    ELSE IF v[2] \in DOMAIN TemplateEscapes
         THEN <<TemplateEscapes[v[2]]>> \o TemplateExpand(Tail(Tail(v)))
    ELSE <<BSL, v[2]>> \o TemplateExpand(Tail(Tail(v)))

\* Variant of OrDash that writes the empty value as it is.
OrDash_Identity(value) == value

\* value if value else "—"
OrDash(value) == IF value # <<>> THEN value ELSE <<EMDASH>>

\* UNDERSCORE_RE.sub(repl, text, count=1) on a text that has a run.
SubFirstRun(text, repl) ==
    SubSeq(text, 1, RunStart(text) - 1) \o TemplateExpand(repl)
       \o SubSeq(text, RunEnd(text) + 1, Len(text))

\* replace_underscores(text, value) raises re.error
ReplaceRaises(text, value) == HasRun(text) /\ ~TemplateValid(OrDash(value))

\* replace_underscores(text, value) where it returns
ReplaceUnderscores(text, value) ==
    IF HasRun(text) THEN SubFirstRun(text, OrDash(value)) ELSE text


(***************************************************************************)
(* Fill strategies.  A fill returns                                        *)
(*   [doc: the document after it, changed: the bool it returns,            *)
(*    raised: re.error left the function, strategy: the branch taken].     *)
(***************************************************************************)
Outcome(d, changed, raised, strategy) ==
    [doc |-> d, changed |-> changed, raised |-> raised, strategy |-> strategy]

SetParagraph(d, i, text) == [d EXCEPT !.paragraphs[i] = text]
SetCell(d, t, r, c, text) == [d EXCEPT !.tables[t][r][c] = text]

PlaceholderDashes == {<<EMDASH>>, <<HYPHEN>>, <<ENDASH>>}

\* original.split(":", 1): the text before and after the first colon.
FirstColon(text) == CHOOSE i \in 1..Len(text) :
                       text[i] = COLON /\ \A j \in 1..(i - 1) : text[j] # COLON
HasColon(text)   == \E i \in 1..Len(text) : text[i] = COLON
LeftOfColon(text)  == SubSeq(text, 1, FirstColon(text) - 1)
RightOfColon(text) == SubSeq(text, FirstColon(text) + 1, Len(text))

\* Strategy 2 applies: "not right_clean or UNDERSCORE_RE.search(right) or
\* right_clean in {dashes}".
ColonApplies(original) ==
    /\ HasColon(original)
    /\ LET right == RightOfColon(original)
       IN \/ Strip(right) = <<>>
          \/ HasRun(right)
          \/ Strip(right) \in PlaceholderDashes

\* doc.paragraphs.index(p), 0 for the -1 of "except ValueError".  The list is
\* built anew by every doc.paragraphs; whether index() finds p in it is decided
\* by the library's paragraph equality (comparable), and the code handles both.
ParagraphIndex(d, p, comparable) == IF comparable THEN p ELSE 0

\* Strategy 3 applies: a next paragraph that is blank or has a run.
NextApplies(d, idx) ==
    /\ idx >= 1
    /\ idx + 1 <= Len(d.paragraphs)
    /\ LET next == d.paragraphs[idx + 1]
       IN IsBlank(next) \/ HasRun(next)

\* fill_paragraph(doc, p, value); p is the paragraph's position.
FillParagraph(d, p, value, comparable) ==
    LET original == d.paragraphs[p]
        idx      == ParagraphIndex(d, p, comparable)
    IN IF IsBlank(original) THEN Outcome(d, FALSE, FALSE, "blank")
       ELSE IF ReplaceRaises(original, value) THEN Outcome(d, FALSE, TRUE, "underscore")
       ELSE IF ReplaceUnderscores(original, value) # original
            THEN Outcome(SetParagraph(d, p, ReplaceUnderscores(original, value)),
                         TRUE, FALSE, "underscore")
       ELSE IF ColonApplies(original)
            THEN Outcome(SetParagraph(d, p, Strip(LeftOfColon(original))
                                              \o <<COLON, SP>> \o OrDash(value)),
                         TRUE, FALSE, "colon")
       ELSE IF NextApplies(d, idx)
            THEN LET next == d.paragraphs[idx + 1]
                     repl == ReplaceUnderscores(next, OrDash(value))
                 IN IF ReplaceRaises(next, OrDash(value))
                    THEN Outcome(d, FALSE, TRUE, "next")
                    ELSE Outcome(SetParagraph(d, idx + 1,
                                    IF IsBlank(repl) THEN OrDash(value) ELSE repl),
                                 TRUE, FALSE, "next")
       ELSE Outcome(SetParagraph(d, p, RStrip(original) \o <<SP>> \o OrDash(value)),
                    TRUE, FALSE, "append")

\* "c_i + 1 < len(row.cells)": the matched cell has a cell to its right.
HasRight(d, m) == m.cell_pos[2] + 1 <= Len(d.tables[m.table][m.cell_pos[1]])

\* fill_table_cell_right: the branch for a right neighbour (lines 207-218).
FillRight(d, m, value) ==
    LET t   == m.table
        r   == m.cell_pos[1]
        c   == m.cell_pos[2] + 1
        txt == d.tables[t][r][c]
    IN IF HasRun(txt)
       THEN IF ReplaceRaises(txt, OrDash(value))
            THEN Outcome(d, FALSE, TRUE, "right_underscore")
            ELSE Outcome(SetCell(d, t, r, c, ReplaceUnderscores(txt, OrDash(value))),
                         TRUE, FALSE, "right_underscore")
       ELSE IF IsBlank(txt) \/ Strip(txt) \in PlaceholderDashes
            THEN Outcome(SetCell(d, t, r, c, OrDash(value)), TRUE, FALSE, "right_overwrite")
       ELSE Outcome(SetCell(d, t, r, c, RStrip(txt) \o <<SP>> \o OrDash(value)),
                    TRUE, FALSE, "right_append")

\* Variant of FillSame that treats the matched cell by the rules of a right
\* neighbour: replace a run, overwrite a blank or a dash, append otherwise.
FillSame_TargetRules(d, m, value) ==
    LET t   == m.table
        r   == m.cell_pos[1]
        c   == m.cell_pos[2]
        txt == d.tables[t][r][c]
    IN IF HasRun(txt)
       THEN IF ReplaceRaises(txt, OrDash(value))
            THEN Outcome(d, FALSE, TRUE, "same_underscore")
            ELSE Outcome(SetCell(d, t, r, c, ReplaceUnderscores(txt, OrDash(value))),
                         TRUE, FALSE, "same_underscore")
       ELSE IF IsBlank(txt) \/ Strip(txt) \in PlaceholderDashes
            THEN Outcome(SetCell(d, t, r, c, OrDash(value)), TRUE, FALSE, "same_overwrite")
       ELSE Outcome(SetCell(d, t, r, c, RStrip(txt) \o <<SP>> \o OrDash(value)),
                    TRUE, FALSE, "same_append")

\* fill_table_cell_right: the fallback into the matched cell (lines 220-225).
FillSame(d, m, value) ==
    LET t        == m.table
        r        == m.cell_pos[1]
        c        == m.cell_pos[2]
        cell_txt == d.tables[t][r][c]
        replaced == ReplaceUnderscores(cell_txt, OrDash(value))
    IN IF ReplaceRaises(cell_txt, OrDash(value))
       THEN Outcome(d, FALSE, TRUE, "same_underscore")
       ELSE IF replaced = cell_txt
            THEN Outcome(SetCell(d, t, r, c, RStrip(cell_txt) \o <<SP>> \o OrDash(value)),
                         TRUE, FALSE, "same_append")
       ELSE Outcome(SetCell(d, t, r, c, replaced), TRUE, FALSE, "same_underscore")

\* fill_table_cell_right(match, value)
FillTableCellRight(d, m, value) ==
    IF HasRight(d, m) THEN FillRight(d, m, value) ELSE FillSame(d, m, value)


(***************************************************************************)
(* Inputs: the documents and the (anchor, value) pairs fill_docx is run on *)
(***************************************************************************)
MaxFields == 2                 \* pairs in the list load_fields returns

U3 == <<US, US, US>>
U4 == <<US, US, US, US>>
AB == <<"a", "b">>

ABD == <<"a", "b", "d">>

\* doc.paragraphs of the documents filled
ParagraphLists ==
    { << <<SP>> >>,
      << <<"A", "b", "c", COLON, SP>> \o U3, ABD >>,
      << AB \o <<COLON, SP, "x">>, <<>> >>,
      << AB \o <<COLON, SP>> \o U3 \o <<SP, "x">> >>,
      << AB \o <<COLON>>, ABD, U4 \o <<SP>> \o U3 >> }

\* doc.tables of the documents filled
TableLists ==
    { <<>>,
      << << << <<"v", COLON>>, <<>> >>, <<AB, U3>> >> >>,
      << << <<AB, <<EMDASH>>, AB>> >> >>,
      << << <<AB \o <<SP>> \o U3>>, <<<<HYPHEN>>>> >>, << <<AB \o <<SP>> \o U3, <<"x">>>> >> >> }

Documents == {[paragraphs |-> ps, tables |-> ts] : ps \in ParagraphLists, ts \in TableLists}

\* load_fields strips every anchor and every value.
Values == { <<>>, <<"v">>, U3, <<BSL, "d">>, <<BSL, BSL>> }

\* The (anchor, value) pairs a list is made of: one label with every value,
\* every other label with one value or with both.
Fields ==
    ({AB} \X Values)
      \cup { << <<>>, <<"v">> >>,
             << <<"a", "b", "c">>, <<"v">> >>,
             << <<HYPHEN>>, <<>> >>,
             << <<"v">>, <<>> >>,
             << <<"v">>, <<"v">> >> }

(***************************************************************************)
(* fill_docx                                                               *)
(***************************************************************************)
VARIABLES
    doc,          \* the document in memory
    doc0,         \* the document as Document(input_docx) loaded it
    comparable,   \* the library finds a paragraph in a fresh doc.paragraphs
    fields,       \* the pairs of the list the loop has taken so far
    not_found,    \* not_found
    log,          \* what each iteration did
    before,       \* the document at the start of the last iteration
    pc            \* "loop", "saved" (doc.save reached), "raised" (re.error left fill_docx)

vars == <<doc, doc0, comparable, fields, not_found, log, before, pc>>

Entry(anchor, value, outcome, m, o) ==
    [anchor |-> anchor, value |-> value, outcome |-> outcome, match |-> m,
     strategy |-> o.strategy, changed |-> o.changed, raised |-> o.raised]

NoFill(d) == Outcome(d, FALSE, FALSE, "none")

Init ==
    /\ doc \in Documents
    /\ doc0 = doc
    /\ comparable \in BOOLEAN
    /\ fields = <<>>
    /\ not_found = <<>>
    /\ log = <<>>
    /\ before = doc
    /\ pc = "loop"

\* Variant of Resolve that scans the document as it was loaded.
Resolve_Initial(anchor) == FindBestAnchor(doc0, anchor)

\* m = find_best_anchor(doc, anchor), line 237
Resolve(anchor) == FindBestAnchor(doc, anchor)

\* lines 242-246: the fill the match's kind selects
ApplyFill(d, m, value, cmp) ==
    IF m.kind = "cell" THEN FillTableCellRight(d, m, value)
    ELSE FillParagraph(d, m.paragraph, value, cmp)

\* "for anchor, value in fields": the loop has a next pair.
HasNext == pc = "loop" /\ Len(fields) < MaxFields

Taken(anchor, value) ==
    /\ fields' = Append(fields, <<anchor, value>>)
    /\ before' = doc
    /\ UNCHANGED <<doc0, comparable>>

\* "if not anchor: continue"
SkipEmpty(anchor, value) ==
    /\ HasNext
    /\ anchor = <<>>
    /\ Taken(anchor, value)
    /\ log' = Append(log, Entry(anchor, value, "skipped", None, NoFill(doc)))
    /\ UNCHANGED <<doc, not_found, pc>>

\* "if m is None: not_found.append(anchor); continue"
Unresolved(anchor, value) ==
    /\ HasNext
    /\ anchor # <<>>
    /\ Resolve(anchor) = None
    /\ Taken(anchor, value)
    /\ not_found' = Append(not_found, anchor)
    /\ log' = Append(log, Entry(anchor, value, "unresolved", None, NoFill(doc)))
    /\ UNCHANGED <<doc, pc>>

\* a match, and the fill returns (lines 242-246)
Fill(anchor, value) ==
    /\ HasNext
    /\ anchor # <<>>
    /\ \E m \in {Resolve(anchor)} :
          /\ m # None
          /\ \E o \in {ApplyFill(doc, m, value, comparable)} :
                /\ ~o.raised
                /\ doc' = o.doc
                /\ log' = Append(log, Entry(anchor, value, m.kind, m, o))
    /\ Taken(anchor, value)
    /\ UNCHANGED <<not_found, pc>>

\* a match, and re.error leaves the fill and fill_docx with it
FillRaises(anchor, value) ==
    /\ HasNext
    /\ anchor # <<>>
    /\ \E m \in {Resolve(anchor)} :
          /\ m # None
          /\ \E o \in {ApplyFill(doc, m, value, comparable)} :
                /\ o.raised
                /\ log' = Append(log, Entry(anchor, value, m.kind, m, o))
    /\ Taken(anchor, value)
    /\ pc' = "raised"
    /\ UNCHANGED <<doc, not_found>>

\* the list is exhausted: doc.save, line 248
Save ==
    /\ pc = "loop"
    /\ pc' = "saved"
    /\ UNCHANGED <<doc, doc0, comparable, fields, not_found, log, before>>

Next ==
    \/ \E f \in Fields : SkipEmpty(f[1], f[2])
    \/ \E f \in Fields : Unresolved(f[1], f[2])
    \/ \E f \in Fields : Fill(f[1], f[2])
    \/ \E f \in Fields : FillRaises(f[1], f[2])
    \/ Save

Spec == Init /\ [][Next]_vars

(***************************************************************************)
(* Vocabulary of the properties                                            *)
(***************************************************************************)
Ran  == Len(log) > 0
Last == log[Len(log)]

Matched(e) == e.outcome \in {"paragraph", "cell"}

\* Every region of a document, named like a Match names it.
ParagraphLocs(d) ==
    {Match("paragraph", <<0, 1>>, i, 0, <<0, 0>>) : i \in 1..Len(d.paragraphs)}
CellLocs(d) ==
    UNION { UNION { {Match("cell", <<0, 1>>, 0, t, <<r, c>>) : c \in 1..Len(d.tables[t][r])}
                    : r \in 1..Len(d.tables[t]) }
            : t \in 1..Len(d.tables) }
Locs(d) == ParagraphLocs(d) \cup CellLocs(d)

Loc(m) == Match(m.kind, <<0, 1>>, m.paragraph, m.table, m.cell_pos)

RegionText(d, l) ==
    IF l.kind = "paragraph" THEN d.paragraphs[l.paragraph]
    ELSE d.tables[l.table][l.cell_pos[1]][l.cell_pos[2]]

NonBlankLocs(d) == {l \in Locs(d) : ~IsBlank(RegionText(d, l))}

\* The regions whose text differs between two states of the document.
ChangedLocs(d1, d2) == {l \in Locs(d1) : RegionText(d1, l) # RegionText(d2, l)}

ScoreOf(d, anchor, l) == BoostedScore(Norm(anchor), RegionText(d, l))
ScoreEq(s, t) == ~ScoreLess(s, t) /\ ~ScoreLess(t, s)

\* Scan order: paragraphs in document order, then cells by table, row, column.
Precedes(l1, l2) ==
    \/ l1.kind = "paragraph" /\ l2.kind = "cell"
    \/ l1.kind = "paragraph" /\ l2.kind = "paragraph" /\ l1.paragraph < l2.paragraph
    \/ /\ l1.kind = "cell" /\ l2.kind = "cell"
       /\ \/ l1.table < l2.table
          \/ l1.table = l2.table /\ l1.cell_pos[1] < l2.cell_pos[1]
          \/ l1.table = l2.table /\ l1.cell_pos[1] = l2.cell_pos[1]
                                 /\ l1.cell_pos[2] < l2.cell_pos[2]

Chars(text) == {text[i] : i \in 1..Len(text)}

\* The value as written: the placeholder dash for the empty value.
Written(value) == IF value = <<>> THEN <<EMDASH>> ELSE value

\* Every region scores below the threshold for the anchor (also: no region).
AllBelow(d, anchor) ==
    \A l \in NonBlankLocs(d) : ScoreLess(ScoreOf(d, anchor, l), MIN_SCORE)

(***************************************************************************)
(* C1                                                                      *)
(***************************************************************************)
\* C1: an iteration changes the document only when some non-blank region
\* scores at least 0.62 for the anchor; when every region scores below 0.62
\* (or no non-blank region exists) the anchor is unresolved, its label is the
\* last of not_found, and every paragraph and cell text is as before.
C1_FillOnlyAboveThreshold ==
    Ran =>
      LET e == Last
      IN /\ (doc # before => ~AllBelow(before, e.anchor))
         /\ (Matched(e) => ~AllBelow(before, e.anchor))
         /\ (AllBelow(before, e.anchor) /\ e.anchor # <<>> =>
               /\ e.outcome = "unresolved"
               /\ doc = before
               /\ not_found # <<>>
               /\ not_found[Len(not_found)] = e.anchor)

\* An anchor left unresolved although a region scores above 0, after an
\* earlier anchor was filled.
C1_Witness ==
    /\ Ran
    /\ Last.outcome = "unresolved"
    /\ before # doc0
    /\ doc = before
    /\ \E l \in NonBlankLocs(before) : ScoreLess(<<0, 1>>, ScoreOf(before, Last.anchor, l))

(***************************************************************************)
(* C2                                                                      *)
(***************************************************************************)
\* C2 (its last sentence): whenever the matched paragraph's text contains a
\* run of at least 3 underscores, the underscore fill is the strategy that is
\* taken, for every value.
C2_UnderscoreFillFires ==
    Ran /\ Last.outcome = "paragraph"
        /\ HasRun(RegionText(before, Loc(Last.match)))
      => Last.strategy = "underscore"

(***************************************************************************)
(* C3                                                                      *)
(***************************************************************************)
\* C3: when the matched cell has a cell to its right, the fill reports
\* mutated = true and changes no text but that of the right neighbour.
C3_RightCellFillReports ==
    Ran /\ Last.outcome = "cell" /\ HasRight(before, Last.match)
      => LET m == Last.match
             right == Match("cell", <<0, 1>>, 0, m.table,
                            <<m.cell_pos[1], m.cell_pos[2] + 1>>)
         IN /\ Last.changed
            /\ ChangedLocs(before, doc) \subseteq {right}

(***************************************************************************)
(* C4                                                                      *)
(***************************************************************************)
\* text[i] is an underscore of a run of at least 3.
InAnyRun(text, i) ==
    /\ text[i] = US
    /\ \E st \in 1..i : \E en \in i..Len(text) :
          /\ en - st + 1 >= UnderscoreMin
          /\ \A j \in st..en : text[j] = US

RECURSIVE MeaningfulFrom(_, _)
\* The characters of text from position i on that are neither whitespace,
\* nor part of an underscore run, nor a placeholder dash.
MeaningfulFrom(text, i) ==
    IF i > Len(text) THEN <<>>
    ELSE IF IsSpace(text[i]) \/ InAnyRun(text, i) \/ <<text[i]>> \in PlaceholderDashes
         THEN MeaningfulFrom(text, i + 1)
         ELSE <<text[i]>> \o MeaningfulFrom(text, i + 1)

RECURSIVE IsSubsequence(_, _)
\* x appears in y, in the same order.
IsSubsequence(x, y) ==
    IF x = <<>> THEN TRUE
    ELSE IF y = <<>> THEN FALSE
    ELSE IF x[1] = y[1] THEN IsSubsequence(Tail(x), Tail(y))
    ELSE IsSubsequence(x, Tail(y))

\* C4: every meaningful character of a region's text before a fill is still
\* in the region's text after it, in the same order.
C4_ContentPreserved ==
    Ran => \A l \in ChangedLocs(before, doc) :
              IsSubsequence(MeaningfulFrom(RegionText(before, l), 1), RegionText(doc, l))

(***************************************************************************)
(* C5                                                                      *)
(***************************************************************************)
RECURSIVE UnresolvedLabels(_)
UnresolvedLabels(entries) ==
    IF entries = <<>> THEN <<>>
    ELSE (IF entries[1].outcome = "unresolved" THEN <<entries[1].anchor>> ELSE <<>>)
         \o UnresolvedLabels(Tail(entries))

\* C5: the pass never stops on an anchor: no exception leaves it, every pair
\* taken has its entry in order, and not_found is the unresolved labels.
C5_RunsToCompletion ==
    /\ pc # "raised"
    /\ Len(log) = Len(fields)
    /\ \A k \in 1..Len(log) : <<log[k].anchor, log[k].value>> = fields[k]
    /\ not_found = UnresolvedLabels(log)

(***************************************************************************)
(* C6                                                                      *)
(***************************************************************************)
ContainingLocs(d, anchor) ==
    {l \in NonBlankLocs(d) : Contains(Norm(RegionText(d, l)), Norm(anchor))}

\* C6: when the normalized anchor is non-empty and inside the normalized text
\* of a non-blank region, the anchor resolves with a score of at least 0.95,
\* to a region that contains it or whose raw ratio is at least 0.95.
C6_SubstringResolves ==
    Ran /\ Norm(Last.anchor) # <<>> /\ ContainingLocs(before, Last.anchor) # {}
      => /\ Matched(Last)
         /\ ~ScoreLess(Last.match.score, <<95, 100>>)
         /\ \/ Loc(Last.match) \in ContainingLocs(before, Last.anchor)
            \/ ~ScoreLess(Sim(Norm(Last.anchor), RegionText(before, Loc(Last.match))),
                          <<95, 100>>)

\* The anchor resolved to a region containing it although another region,
\* which does not contain it, has the higher raw ratio.
C6_Witness ==
    /\ Ran /\ Matched(Last)
    /\ Loc(Last.match) \in ContainingLocs(before, Last.anchor)
    /\ \E l \in NonBlankLocs(before) \ ContainingLocs(before, Last.anchor) :
          ScoreLess(Sim(Norm(Last.anchor), RegionText(before, Loc(Last.match))),
                    Sim(Norm(Last.anchor), RegionText(before, l)))

(***************************************************************************)
(* C7                                                                      *)
(***************************************************************************)
\* C7: a resolved anchor with the empty value is filled as the value "—" is:
\* the fill returns, the document is the one the dash gives, and a region it
\* changed holds the dash and is not blank.
C7_EmptyValueWritesDash ==
    Ran /\ Matched(Last) /\ Last.value = <<>>
      => /\ ~Last.raised
         /\ Last.changed
         /\ doc = ApplyFill(before, Last.match, <<EMDASH>>, comparable).doc
         /\ \A l \in ChangedLocs(before, doc) :
               /\ ~IsBlank(RegionText(doc, l))
               /\ EMDASH \in Chars(RegionText(doc, l))

\* An empty value written into the blank cell right of the matched one.
C7_Witness ==
    /\ Ran /\ Matched(Last) /\ Last.value = <<>>
    /\ Last.strategy = "right_overwrite"
    /\ \E l \in ChangedLocs(before, doc) :
          IsBlank(RegionText(before, l)) /\ RegionText(doc, l) = <<EMDASH>>

(***************************************************************************)
(* C8                                                                      *)
(***************************************************************************)
\* C8 (its overwrite rule): a matched cell without a right neighbour whose
\* text is exactly a placeholder dash is overwritten with the value.
C8_FallbackOverwritesDash ==
    Ran /\ Last.outcome = "cell" /\ ~HasRight(before, Last.match)
        /\ Strip(RegionText(before, Loc(Last.match))) \in PlaceholderDashes
      => RegionText(doc, Loc(Last.match)) = Written(Last.value)

\* C8 as amended: a matched cell without a right neighbour is itself the
\* target, under two rules: re.sub replaces its first underscore run by the
\* value (the dash if empty) taken as a replacement template; when that leaves
\* the text as it was (no run, or a value equal to the run) the value is
\* appended to the right-trimmed text after a space, also when the text is a
\* placeholder dash.  A value that is no valid template raises on a text with
\* a run and leaves the document as it was.  No other text changes.
C8_FallbackReplacesOrAppends ==
    Ran /\ Last.outcome = "cell" /\ ~HasRight(before, Last.match)
      => LET m   == Last.match
             old == RegionText(before, Loc(m))
             d   == Written(Last.value)
             sub == SubSeq(old, 1, RunStart(old) - 1) \o TemplateExpand(d)
                       \o SubSeq(old, RunEnd(old) + 1, Len(old))
         IN IF HasRun(old) /\ ~TemplateValid(d)
            THEN Last.raised /\ doc = before
            ELSE /\ ~Last.raised
                 /\ Last.changed
                 /\ doc = SetCell(before, m.table, m.cell_pos[1], m.cell_pos[2],
                                  IF HasRun(old) /\ sub # old THEN sub
                                  ELSE RStrip(old) \o <<SP>> \o d)

\* A matched cell that is a placeholder dash, with no right neighbour, filled.
C8_Witness ==
    /\ Ran /\ Last.outcome = "cell" /\ ~HasRight(before, Last.match)
    /\ RegionText(before, Loc(Last.match)) \in PlaceholderDashes
    /\ RegionText(doc, Loc(Last.match)) =
          RegionText(before, Loc(Last.match)) \o <<SP>> \o Written(Last.value)

(***************************************************************************)
(* C9                                                                      *)
(***************************************************************************)
\* C9: the region selected is non-blank, no region scores higher, and every
\* other region with the same score comes later in scan order.
C9_FirstSeenWinsTies ==
    Ran /\ Matched(Last)
      => LET sel == Loc(Last.match)
         IN /\ sel \in NonBlankLocs(before)
            /\ \A l \in NonBlankLocs(before) \ {sel} :
                  \/ ScoreLess(ScoreOf(before, Last.anchor, l),
                               ScoreOf(before, Last.anchor, sel))
                  \/ /\ ScoreEq(ScoreOf(before, Last.anchor, l),
                                ScoreOf(before, Last.anchor, sel))
                     /\ Precedes(sel, l)

\* A paragraph selected although a cell has the same score.
C9_Witness ==
    /\ Ran /\ Last.outcome = "paragraph"
    /\ \E l \in NonBlankLocs(before) :
          /\ l.kind = "cell"
          /\ ScoreEq(ScoreOf(before, Last.anchor, l),
                     ScoreOf(before, Last.anchor, Loc(Last.match)))

(***************************************************************************)
(* C10                                                                     *)
(***************************************************************************)
\* C10: an anchor is resolved on the document as the earlier fills left it:
\* the selected region is non-blank there and the match's score is that of
\* its text there; an anchor is unresolved only if every region, as it is
\* then, scores below 0.62, and the document stays as the fills left it.
C10_ResolvesOnCurrentDocument ==
    Ran =>
      LET e == Last
      IN /\ Matched(e) =>
               /\ Loc(e.match) \in NonBlankLocs(before)
               /\ ScoreEq(e.match.score, ScoreOf(before, e.anchor, Loc(e.match)))
         /\ e.outcome = "unresolved" =>
               /\ AllBelow(before, e.anchor)
               /\ doc = before

\* An anchor resolved to a region that was blank in the loaded document and
\* holds the text an earlier fill wrote.
C10_Witness ==
    /\ Ran /\ Last.outcome = "cell"
    /\ IsBlank(RegionText(doc0, Loc(Last.match)))
    /\ ~IsBlank(RegionText(before, Loc(Last.match)))

=============================================================================
